---- MODULE Spec2Model ----
(***************************************************************************)
(* libpersimq: a persistent single-process message queue kept in a file.   *)
(* The file is a 45-byte header (TFileHeader) followed by a circular data  *)
(* region that holds the message records (TMessageHeader + payload).       *)
(*                                                                         *)
(* The model keeps the file byte for byte.  Offsets are the C offsets      *)
(* (0-based); the byte at offset o is file[o + 1].                         *)
(***************************************************************************)
EXTENDS Integers, Sequences, FiniteSets, TLC

VARIABLES
    mq,       \* the T_PERSIMQ struct of the caller
    fdOpen,   \* TRUE while the descriptor held in mq.fd is open (and locked)
    file,     \* the bytes of the queue file, <<>> before it is created
    lastOp,   \* the last library call: name, arguments, return value, outputs
    live,     \* history: the payloads pushed and not yet removed
    ckpt,     \* history: the value of live at the last header write
    twin,     \* a second queue driven in lock step (SpecTwin only)
    damaged,  \* TRUE once a byte of the file was changed behind the library
    nops      \* the number of calls made so far

vars == <<mq, fdOpen, file, lastOp, live, ckpt, twin, damaged, nops>>

----------------------------------------------------------------------------
(* Sizes and inputs *)

sizeof_TFileHeader == 45
sizeof_TMessageHeader == 8
wrap_lo_margin == sizeof_TFileHeader

\* The descriptor number open() hands out (0, 1, 2 are the standard streams).
NewFd == 3

\* The file size the example uses.
FileSize == 64

\* A run of Spec makes at most MaxOps calls, a run of SpecFifo at most
\* MaxFifoOps, and so on.
MaxOps == 5
MaxFifoOps == 7
MaxTwinOps == 6
MaxHeaderFaultOps == 4
MaxPayloadFaultOps == 3
\* Pushed payloads have 0..MaxLen bytes; the first byte is 1 or 2 and the bytes
\* after it count up.
MaxLen == 2
\* pop_n is called with 0..MaxPopN.
MaxPopN == 2
\* get_all is called with max_messages in 0..MaxGetAll.
MaxGetAll == 2
\* A file whose data region holds three records of ten bytes.
BigFileSize == 75
MaxPeekOps == 5
MaxFrameOps == 5
MaxIoOps == 3
MaxOpenOps == 4
MaxRecordFaultOps == 4
MaxBatchOps == 5
MaxPushFaultOps == 5
MaxCountOps == 6
MaxCrcLen == 2
MaxCrashOps == 7
MaxIncrement == 40

Byte == 0..255

\* "Test message !!!" with its terminator: the message of the example.
ExampleMessage ==
    <<84, 101, 115, 116, 32, 109, 101, 115, 115, 97, 103, 101, 32, 33, 33, 33, 0>>

Payloads ==
    {[i \in 1..len |-> first + i - 1] : len \in 0..MaxLen, first \in {1, 2}}
      \cup {ExampleMessage}

\* Sizes open is called with: too small, the example's, one byte more.
OpenSizes == {sizeof_TFileHeader + sizeof_TMessageHeader + 1, FileSize, FileSize + 1}

\* Sizes of the buffer handed to get.
BufferSizes == {1, 100}
\* the payloads of 1..MaxLen bytes
ShortPayloads == {p \in Payloads : Len(p) \in 1..MaxLen}
\* OpenSizes and two sizes that are no file size at all
AnyOpenSizes == OpenSizes \cup {0 - 1, 0}
\* a size that open refuses and the size of the example
FrameSizes == {sizeof_TFileHeader + sizeof_TMessageHeader + 1, FileSize}
\* buffer sizes for get_all: nothing fits, one byte, one message and a byte, all
PeekBuffers == {0, 1, 3, 100}

----------------------------------------------------------------------------
(* eval_crc8 *)

RECURSIVE Xor(_, _, _)
\* a ^ b on `bits` bits
Xor(a, b, bits) ==
    IF bits = 0 THEN 0
    ELSE (IF a % 2 = b % 2 THEN 0 ELSE 1) + 2 * Xor(a \div 2, b \div 2, bits - 1)

XorTable == [a \in Byte |-> [b \in Byte |-> Xor(a, b, 8)]]

\* crc = (crc & 0x80) ? (crc << 1) ^ 0x8C : (crc << 1), in a uint8_t
crc8_bit(crc) ==
    IF crc >= 128 THEN XorTable[(crc * 2) % 256][140] ELSE (crc * 2) % 256

RECURSIVE crc8_bits(_, _)
crc8_bits(crc, bit) == IF bit = 8 THEN crc ELSE crc8_bits(crc8_bit(crc), bit + 1)

\* the eight shifts of one byte_idx iteration, for every value of crc
Crc8Table == [crc \in Byte |-> crc8_bits(crc, 0)]

RECURSIVE crc8_from(_, _, _)
crc8_from(crc, data, byte_idx) ==
    IF byte_idx > Len(data) THEN crc
    ELSE crc8_from(Crc8Table[XorTable[crc][data[byte_idx]]], data, byte_idx + 1)

eval_crc8(data) == crc8_from(0, data, 1)

----------------------------------------------------------------------------
(* Byte layouts *)

RECURSIVE LittleEndian(_, _)
\* the `width` bytes of the two's complement integer n, lowest first
LittleEndian(n, width) ==
    IF width = 0 THEN <<>> ELSE <<n % 256>> \o LittleEndian(n \div 256, width - 1)

\* The value of a uint32_t from its four bytes.
FromLE32(b) == b[1] + 256 * b[2] + 65536 * b[3] + 16777216 * b[4]

\* The value of an off_t read from its eight bytes.  Every value the model
\* reaches fits 32 bits: the upper four bytes are the sign extension.
FromLE64(b) ==
    b[1] + 256 * b[2] + 65536 * b[3]
      + 16777216 * (IF b[4] >= 128 THEN b[4] - 256 ELSE b[4])

FileMagic == <<108, 80, 109, 81>>     \* "lPmQ"
MessageMagic == <<80, 77, 81>>        \* "PMQ"

\* TFileHeader without its crc byte
FileHeaderBody(m) ==
    FileMagic \o LittleEndian(m.append_ptr, 8) \o LittleEndian(m.extract_ptr, 8)
      \o LittleEndian(m.count_bytes, 8) \o LittleEndian(m.count_messages, 8)
      \o LittleEndian(m.file_size, 8)

TFileHeader(m) == LET body == FileHeaderBody(m) IN Append(body, eval_crc8(body))

TMessageHeader(message_crc, message_size) ==
    MessageMagic \o <<message_crc>> \o LittleEndian(message_size, 4)

----------------------------------------------------------------------------
(* offset_roll, the POSIX calls, wrapped_io *)

\* Mutant: the sum is not reduced modulo the size of the data region.
offset_roll_NoModulo(current_offset, wrap_hi_margin, increment) ==
    (IF current_offset < wrap_lo_margin THEN wrap_lo_margin
     ELSE current_offset - wrap_lo_margin) + increment + wrap_lo_margin

offset_roll(current_offset, wrap_hi_margin, increment) ==
    LET sub_offset == IF current_offset < wrap_lo_margin
                      THEN wrap_lo_margin
                      ELSE current_offset - wrap_lo_margin
        sub_margin == wrap_hi_margin - wrap_lo_margin
    IN ((sub_offset + increment) % sub_margin) + wrap_lo_margin

\* lseek(fd, offset, SEEK_SET) >= 0: fails with EBADF on a closed descriptor
lseek(open, offset) == open /\ offset >= 0

\* `length` bytes of f from offset pos.  read() returns 0 for a request of no
\* bytes and at the end of the file, which multiread takes for an error.
multiread(open, f, pos, length) ==
    IF open /\ length > 0 /\ pos + length <= Len(f)
    THEN [ok |-> TRUE, file |-> f, data |-> SubSeq(f, pos + 1, pos + length)]
    ELSE [ok |-> FALSE, file |-> f, data |-> <<>>]

\* f with data written at offset pos; a write past the end makes the file
\* longer.  write() returns 0 for a request of no bytes, which multiwrite takes
\* for an error.
multiwrite(open, f, pos, data) ==
    IF open /\ Len(data) > 0
    THEN [ok |-> TRUE,
          file |-> [i \in 1..(IF pos + Len(data) > Len(f) THEN pos + Len(data) ELSE Len(f)) |->
                      IF i > pos /\ i <= pos + Len(data) THEN data[i - pos]
                      ELSE IF i <= Len(f) THEN f[i] ELSE 0],
          data |-> data]
    ELSE [ok |-> FALSE, file |-> f, data |-> data]

\* result &= (lseek(...) >= 0); result &= io_function(...);
Transferred(seek, io) == [ok |-> seek /\ io.ok, file |-> io.file, data |-> io.data]

SeekAndTransfer(open, f, pos, data, length, do_write) ==
    Transferred(lseek(open, pos),
                IF do_write THEN multiwrite(open, f, pos, data)
                ELSE multiread(open, f, pos, length))

IoResult(ok, f, data, next) ==
    [ok |-> ok, file |-> f, data |-> data, has_next |-> TRUE, next |-> next]

\* Mutant: the two chunks of a wrapped read come back in the other order.
IoSecond_Swapped(io1, io2, next) ==
    IoResult(io1.ok /\ io2.ok, io2.file, io2.data \o io1.data, next)

\* the second transfer of a wrapped one, at wrap_lo_margin
IoSecond(io1, io2, next) ==
    IoResult(io1.ok /\ io2.ok, io2.file, io1.data \o io2.data, next)

\* Mutant: the second write starts at data, not at data + first_chunk_size.
IoWrapped_SameData(open, io1, data, length, first_chunk_size, do_write, next) ==
    IoSecond(io1,
             SeekAndTransfer(open, io1.file, wrap_lo_margin,
                             IF do_write THEN SubSeq(data, 1, length - first_chunk_size)
                             ELSE <<>>,
                             length - first_chunk_size, do_write),
             next)

\* Mutant: the second transfer is made at the start of the file.
IoWrapped_AtZero(open, io1, data, length, first_chunk_size, do_write, next) ==
    IoSecond(io1,
             SeekAndTransfer(open, io1.file, 0,
                             IF do_write THEN SubSeq(data, first_chunk_size + 1, length)
                             ELSE <<>>,
                             length - first_chunk_size, do_write),
             next)

IoWrapped(open, io1, data, length, first_chunk_size, do_write, next) ==
    IoSecond(io1,
             SeekAndTransfer(open, io1.file, wrap_lo_margin,
                             IF do_write THEN SubSeq(data, first_chunk_size + 1, length)
                             ELSE <<>>,
                             length - first_chunk_size, do_write),
             next)

IoSingle(io, next) == IoResult(io.ok, io.file, io.data, next)

\* wrapped_io once offset is rolled.  has_next is FALSE on the early return,
\* which does not store next_offset.
wrapped_io_at(open, f, data, length, offset, wrap_hi_margin, do_write) ==
    IF length >= wrap_hi_margin - wrap_lo_margin
    THEN [ok |-> FALSE, file |-> f, data |-> <<>>, has_next |-> FALSE, next |-> offset]
    ELSE IF length <= wrap_hi_margin - offset
    THEN IoSingle(SeekAndTransfer(open, f, offset, data, length, do_write),
                  offset_roll(offset, wrap_hi_margin, length))
    ELSE IoWrapped(open,
                   SeekAndTransfer(open, f, offset,
                                   IF do_write THEN SubSeq(data, 1, wrap_hi_margin - offset)
                                   ELSE <<>>,
                                   wrap_hi_margin - offset, do_write),
                   data, length, wrap_hi_margin - offset, do_write,
                   offset_roll(offset, wrap_hi_margin, length))

\* wrapped_io on a device that fails during the call: lseek and the transfer
\* fail in the last chunk; the chunk before it, when there are two, succeeds
\* when first_ok and fails too otherwise.
wrapped_io_failing(f, data, length, offset, wrap_hi_margin, do_write, first_ok) ==
    IF length >= wrap_hi_margin - wrap_lo_margin
    THEN [ok |-> FALSE, file |-> f, data |-> <<>>, has_next |-> FALSE, next |-> offset]
    ELSE IF length <= wrap_hi_margin - offset
    THEN IoSingle(SeekAndTransfer(FALSE, f, offset, data, length, do_write),
                  offset_roll(offset, wrap_hi_margin, length))
    ELSE IoWrapped(FALSE,
                   SeekAndTransfer(first_ok, f, offset,
                                   IF do_write THEN SubSeq(data, 1, wrap_hi_margin - offset)
                                   ELSE <<>>,
                                   wrap_hi_margin - offset, do_write),
                   data, length, wrap_hi_margin - offset, do_write,
                   offset_roll(offset, wrap_hi_margin, length))

\* wrapped_io(fd, data, length, offset, wrap_hi_margin, next_offset, do_write):
\* ok, the file, the bytes read, and the value stored in next_offset.
wrapped_io(open, f, data, length, offset, wrap_hi_margin, do_write) ==
    wrapped_io_at(open, f, data, length, offset_roll(offset, wrap_hi_margin, 0),
                  wrap_hi_margin, do_write)

----------------------------------------------------------------------------
(* The library calls, as functions of the world w = [mq, open, file] *)

World(m, open, f) == [mq |-> m, open |-> open, file |-> f]

Res(w, ok, err, out) == [w |-> w, ok |-> ok, err |-> err, out |-> out]

\* flock(fd, LOCK_UN); close(fd); mq->fd = 0
CloseAndForget(w, f) == World([w.mq EXCEPT !.fd = 0], FALSE, f)

PERSIMQ_is_open(m) == m.fd # 0

PERSIMQ_is_empty(m) == m.count_bytes = 0

PERSIMQ_messages_available(m) == m.count_messages

PERSIMQ_bytes_available(m) == m.count_bytes - sizeof_TMessageHeader * m.count_messages

\* Mutant: the file header is not taken off the free space.
PERSIMQ_bytes_free_NoHeader(m) == m.file_size - m.count_bytes

\* The size_t result, as its signed 64-bit value.
PERSIMQ_bytes_free(m) == m.file_size - (m.count_bytes + sizeof_TFileHeader)

\* a < b for a size_t a given by its signed value and a small b >= 0: a
\* negative value is a size_t above every b of the model.
SizeLess(a, b) == a >= 0 /\ a < b

\* ftruncate(fd, size)
ftruncate(f, size) == [i \in 1..size |-> IF i <= Len(f) THEN f[i] ELSE 0]

\* The test of the header read by open.
\* Mutant: the recorded file size is not compared.
HeaderAccepted_AnySize(header, mqfile_size) ==
    /\ SubSeq(header, 1, 4) = FileMagic
    /\ eval_crc8(SubSeq(header, 1, sizeof_TFileHeader - 1)) = header[sizeof_TFileHeader]

HeaderAccepted(header, mqfile_size) ==
    /\ SubSeq(header, 1, 4) = FileMagic
    /\ eval_crc8(SubSeq(header, 1, sizeof_TFileHeader - 1)) = header[sizeof_TFileHeader]
    /\ mqfile_size = FromLE64(SubSeq(header, 37, 44))

\* Mutant: the two pointers are taken from each other's field.
HeaderFields_Swapped(m, header) ==
    [m EXCEPT !.append_ptr = FromLE64(SubSeq(header, 13, 20)),
              !.extract_ptr = FromLE64(SubSeq(header, 5, 12)),
              !.count_bytes = FromLE64(SubSeq(header, 21, 28)),
              !.count_messages = FromLE64(SubSeq(header, 29, 36))]

HeaderFields(m, header) ==
    [m EXCEPT !.append_ptr = FromLE64(SubSeq(header, 5, 12)),
              !.extract_ptr = FromLE64(SubSeq(header, 13, 20)),
              !.count_bytes = FromLE64(SubSeq(header, 21, 28)),
              !.count_messages = FromLE64(SubSeq(header, 29, 36))]

EmptyFields(m) ==
    [m EXCEPT !.append_ptr = sizeof_TFileHeader, !.extract_ptr = sizeof_TFileHeader,
              !.count_bytes = 0, !.count_messages = 0]

open_checked(w, mqfile_size, f, header, accepted) ==
    Res(World([(IF accepted THEN HeaderFields(w.mq, header) ELSE EmptyFields(w.mq))
                 EXCEPT !.fd = NewFd, !.file_size = mqfile_size],
              TRUE, f),
        TRUE, IF accepted THEN "recovered" ELSE "new", <<>>)

open_header_read(w, mqfile_size, rd) ==
    IF ~rd.ok THEN Res(World([w.mq EXCEPT !.fd = 0], FALSE, rd.file), FALSE, "io", <<>>)
    ELSE open_checked(w, mqfile_size, rd.file, rd.data, HeaderAccepted(rd.data, mqfile_size))

\* mqfile_size <= sizeof(TFileHeader) + sizeof(TMessageHeader) + 1, compared as
\* size_t: a negative off_t is a size_t above the right-hand side.
SizeRefused(mqfile_size) ==
    mqfile_size >= 0 /\ mqfile_size <= sizeof_TFileHeader + sizeof_TMessageHeader + 1

\* open() and flock() succeed: the action that calls this waits for the lock.
\* ftruncate() fails with EINVAL for a negative size, and open returns false
\* with the descriptor stored in mq->fd, open and locked.
PERSIMQ_open(w, mqfile_size) ==
    IF SizeRefused(mqfile_size)
    THEN Res(w, FALSE, "config", <<>>)
    ELSE IF mqfile_size < 0
    THEN Res(World([w.mq EXCEPT !.fd = NewFd], TRUE, w.file), FALSE, "truncate", <<>>)
    ELSE open_header_read(w, mqfile_size,
                          multiread(TRUE, ftruncate(w.file, mqfile_size), 0, sizeof_TFileHeader))

sync_written(w, seek, wr, fsync) ==
    Res(World(w.mq, w.open, wr.file), seek /\ wr.ok /\ fsync,
        IF seek /\ wr.ok /\ fsync THEN "ok" ELSE "io", <<>>)

PERSIMQ_sync(w) ==
    IF w.mq.fd = 0 THEN Res(w, FALSE, "uninit", <<>>)
    ELSE sync_written(w, lseek(w.open, 0), multiwrite(w.open, w.file, 0, TFileHeader(w.mq)),
                      w.open)

close_synced(s, closed) ==
    Res(World(s.w.mq, FALSE, s.w.file), s.ok /\ closed,
        IF s.ok /\ closed THEN "ok" ELSE "io", <<>>)

\* close() leaves mq->fd as it is.
PERSIMQ_close(w) ==
    IF w.mq.fd = 0 THEN Res(w, TRUE, "ok", <<>>)
    ELSE close_synced(PERSIMQ_sync(w), w.open)

PERSIMQ_drop(w) ==
    IF w.mq.fd = 0 THEN Res(w, TRUE, "ok", <<>>)
    ELSE Res(World(w.mq, FALSE, w.file), w.open, IF w.open THEN "ok" ELSE "io", <<>>)

\* Mutant: clear resets the fields and leaves the file alone.
PERSIMQ_clear_NoSync(w) ==
    IF w.mq.fd = 0 THEN Res(w, FALSE, "uninit", <<>>)
    ELSE Res(World(EmptyFields(w.mq), w.open, w.file), w.open,
             IF w.open THEN "ok" ELSE "io", <<>>)

PERSIMQ_clear(w) ==
    IF w.mq.fd = 0 THEN Res(w, FALSE, "uninit", <<>>)
    ELSE PERSIMQ_sync(World(EmptyFields(w.mq), w.open, w.file))

\* Mutant: the counts are incremented before the result of the write is
\* looked at.
push_data_written_Counted(w, message_size, io2, m2) ==
    IF ~io2.ok
    THEN Res(World([m2 EXCEPT !.fd = 0,
                              !.count_messages = @ + 1,
                              !.count_bytes = @ + sizeof_TMessageHeader + message_size],
                   FALSE, io2.file),
             FALSE, "io", <<>>)
    ELSE Res(World([m2 EXCEPT !.count_messages = @ + 1,
                              !.count_bytes = @ + sizeof_TMessageHeader + message_size],
                   w.open, io2.file),
             TRUE, "ok", <<>>)

\* after the second wrapped_io, whose next_offset is &mq->append_ptr
push_data_written(w, message_size, io2, m2) ==
    IF ~io2.ok THEN Res(World([m2 EXCEPT !.fd = 0], FALSE, io2.file), FALSE, "io", <<>>)
    ELSE Res(World([m2 EXCEPT !.count_messages = @ + 1,
                              !.count_bytes = @ + sizeof_TMessageHeader + message_size],
                   w.open, io2.file),
             TRUE, "ok", <<>>)

push_data(w, message_size, io2) ==
    push_data_written(w, message_size, io2,
                      IF io2.has_next THEN [w.mq EXCEPT !.append_ptr = io2.next] ELSE w.mq)

push_header_written(w, message, io1) ==
    IF ~io1.ok THEN Res(CloseAndForget(w, io1.file), FALSE, "io", <<>>)
    ELSE push_data(w, Len(message),
                   wrapped_io(w.open, io1.file, message, Len(message),
                              offset_roll(w.mq.append_ptr, w.mq.file_size, sizeof_TMessageHeader),
                              w.mq.file_size, TRUE))

\* PERSIMQ_push when the device fails while the header is written
push_failing_header(w, message, first_ok) ==
    push_header_written(w, message,
        wrapped_io_failing(w.file, TMessageHeader(eval_crc8(message), Len(message)),
                           sizeof_TMessageHeader,
                           offset_roll(w.mq.append_ptr, w.mq.file_size, 0),
                           w.mq.file_size, TRUE, first_ok))

\* PERSIMQ_push when the header io1 is written and the device fails while the
\* payload is
push_failing_data(w, message, io1, first_ok) ==
    IF ~io1.ok THEN Res(CloseAndForget(w, io1.file), FALSE, "io", <<>>)
    ELSE push_data(w, Len(message),
                   wrapped_io_failing(io1.file, message, Len(message),
                       offset_roll(w.mq.append_ptr, w.mq.file_size, sizeof_TMessageHeader),
                       w.mq.file_size, TRUE, first_ok))

\* PERSIMQ_push with a failure of the device in the header or in the payload
PERSIMQ_push_failing(w, message, in_header, first_ok) ==
    IF w.mq.fd = 0 THEN Res(w, FALSE, "uninit", <<>>)
    ELSE IF SizeLess(PERSIMQ_bytes_free(w.mq), sizeof_TMessageHeader + Len(message))
    THEN Res(w, FALSE, "nospace", <<>>)
    ELSE IF in_header THEN push_failing_header(w, message, first_ok)
    ELSE push_failing_data(w, message,
             wrapped_io(w.open, w.file, TMessageHeader(eval_crc8(message), Len(message)),
                        sizeof_TMessageHeader, w.mq.append_ptr, w.mq.file_size, TRUE),
             first_ok)

PERSIMQ_push(w, message) ==
    IF w.mq.fd = 0 THEN Res(w, FALSE, "uninit", <<>>)
    ELSE IF SizeLess(PERSIMQ_bytes_free(w.mq), sizeof_TMessageHeader + Len(message))
    THEN Res(w, FALSE, "nospace", <<>>)
    ELSE push_header_written(w, message,
             wrapped_io(w.open, w.file, TMessageHeader(eval_crc8(message), Len(message)),
                        sizeof_TMessageHeader, w.mq.append_ptr, w.mq.file_size, TRUE))

\* The header read: ok, err, the world, and the crc and size fields.  No caller
\* reads the fields of a header whose read failed, so they are 0 then.
HeaderRes(ok, err, w, bytes) ==
    [ok |-> ok, err |-> err, w |-> w,
     message_crc |-> IF Len(bytes) = sizeof_TMessageHeader THEN bytes[4] ELSE 0,
     message_size |-> IF Len(bytes) = sizeof_TMessageHeader
                      THEN FromLE32(SubSeq(bytes, 5, 8)) ELSE 0]

\* Mutant: the tag is not compared.
header_read_NoTag(w, io) ==
    IF ~io.ok THEN HeaderRes(FALSE, "io", CloseAndForget(w, w.file), <<>>)
    ELSE HeaderRes(TRUE, "ok", w, io.data)

header_read(w, io) ==
    IF ~io.ok THEN HeaderRes(FALSE, "io", CloseAndForget(w, w.file), <<>>)
    ELSE IF SubSeq(io.data, 1, 3) # MessageMagic
    THEN HeaderRes(FALSE, "badtag", CloseAndForget(w, w.file), <<>>)
    ELSE HeaderRes(TRUE, "ok", w, io.data)

PERSIMQ_read_message_header(w, offset) ==
    IF w.mq.fd = 0 THEN HeaderRes(FALSE, "uninit", w, <<>>)
    ELSE header_read(w, wrapped_io(w.open, w.file, <<>>, sizeof_TMessageHeader,
                                   offset_roll(offset, w.mq.file_size, 0),
                                   w.mq.file_size, FALSE))

\* Mutant: pop leaves count_bytes as it is.
pop_header_read_KeepBytes(w, header) ==
    IF ~header.ok THEN Res(header.w, FALSE, header.err, <<>>)
    ELSE Res(World([w.mq EXCEPT
                      !.extract_ptr = offset_roll(w.mq.extract_ptr, w.mq.file_size,
                                                  header.message_size + sizeof_TMessageHeader),
                      !.count_messages = @ - 1],
                   w.open, w.file),
             TRUE, "ok", <<>>)

pop_header_read(w, header) ==
    IF ~header.ok THEN Res(header.w, FALSE, header.err, <<>>)
    ELSE Res(World([w.mq EXCEPT
                      !.extract_ptr = offset_roll(w.mq.extract_ptr, w.mq.file_size,
                                                  header.message_size + sizeof_TMessageHeader),
                      !.count_bytes = @ - (header.message_size + sizeof_TMessageHeader),
                      !.count_messages = @ - 1],
                   w.open, w.file),
             TRUE, "ok", <<>>)

PERSIMQ_pop(w) ==
    IF w.mq.fd = 0 THEN Res(w, FALSE, "uninit", <<>>)
    ELSE IF PERSIMQ_messages_available(w.mq) = 0 THEN Res(w, FALSE, "empty", <<>>)
    ELSE pop_header_read(w, PERSIMQ_read_message_header(w, w.mq.extract_ptr))

RECURSIVE PopLoop(_, _, _, _)
RECURSIVE PopLoopBody(_, _, _, _)
\* for (i = 0; i < pop_count; i++) result &= PERSIMQ_pop(mq);
PopLoop(w, i, pop_count, result) ==
    IF i >= pop_count THEN Res(w, result, IF result THEN "ok" ELSE "pop", <<>>)
    ELSE PopLoopBody(PERSIMQ_pop(w), i, pop_count, result)

\* Mutant: the result of a pop is not collected.
PopLoopBody_NoResult(r, i, pop_count, result) == PopLoop(r.w, i + 1, pop_count, result)

PopLoopBody(r, i, pop_count, result) == PopLoop(r.w, i + 1, pop_count, result /\ r.ok)

\* Mutant: the quick option leaves count_bytes as it is.
PERSIMQ_pop_n_KeepBytes(w, pop_count) ==
    IF pop_count >= w.mq.count_messages
    THEN Res(World([w.mq EXCEPT !.extract_ptr = w.mq.append_ptr, !.count_messages = 0],
                   w.open, w.file),
             TRUE, "ok", <<>>)
    ELSE PopLoop(w, 0, pop_count, TRUE)

\* pop_n does not look at mq->fd.
PERSIMQ_pop_n(w, pop_count) ==
    IF pop_count >= w.mq.count_messages
    THEN Res(World([w.mq EXCEPT !.extract_ptr = w.mq.append_ptr,
                                !.count_bytes = 0, !.count_messages = 0],
                   w.open, w.file),
             TRUE, "ok", <<>>)
    ELSE PopLoop(w, 0, pop_count, TRUE)

\* Mutant: a successful read removes the message, as pop does.
data_read_Consuming(w, message_crc, io) ==
    IF ~io.ok THEN Res(CloseAndForget(w, w.file), FALSE, "io", io.data)
    ELSE IF eval_crc8(io.data) # message_crc
    THEN Res(CloseAndForget(w, w.file), FALSE, "badcrc", io.data)
    ELSE Res(World([w.mq EXCEPT
                      !.extract_ptr = offset_roll(@, w.mq.file_size,
                                                  Len(io.data) + sizeof_TMessageHeader),
                      !.count_bytes = @ - (Len(io.data) + sizeof_TMessageHeader),
                      !.count_messages = @ - 1],
                   w.open, w.file),
             TRUE, "ok", io.data)

data_read(w, message_crc, io) ==
    IF ~io.ok THEN Res(CloseAndForget(w, w.file), FALSE, "io", io.data)
    ELSE IF eval_crc8(io.data) # message_crc
    THEN Res(CloseAndForget(w, w.file), FALSE, "badcrc", io.data)
    ELSE Res(w, TRUE, "ok", io.data)

\* Result: the world, ok, err, and the bytes left in the caller's buffer.
PERSIMQ_read_message_data(w, message_size, message_crc, extract_ptr) ==
    data_read(w, message_crc,
              wrapped_io(w.open, w.file, <<>>, message_size, extract_ptr,
                         w.mq.file_size, FALSE))

get_header_read(w, buffer_size, header) ==
    IF ~header.ok THEN Res(header.w, FALSE, header.err, <<>>)
    ELSE IF header.message_size > buffer_size THEN Res(w, FALSE, "bufsmall", <<>>)
    ELSE PERSIMQ_read_message_data(w, header.message_size, header.message_crc,
                                   w.mq.extract_ptr + sizeof_TMessageHeader)

PERSIMQ_get(w, buffer_size) ==
    IF w.mq.fd = 0 THEN Res(w, FALSE, "uninit", <<>>)
    ELSE IF PERSIMQ_messages_available(w.mq) = 0 THEN Res(w, FALSE, "empty", <<>>)
    ELSE get_header_read(w, buffer_size, PERSIMQ_read_message_header(w, w.mq.extract_ptr))

\* get_all: the result also holds *total_size and *messages_read; stored is
\* FALSE on the return that leaves them as they were.  out is the first
\* total bytes of the caller's buffer.
AllRes(w, ok, err, out, messages_read, stored) ==
    [w |-> w, ok |-> ok, err |-> err, out |-> out, total |-> Len(out),
     count |-> messages_read, stored |-> stored]

RECURSIVE GetAllLoop(_, _, _, _, _, _)
RECURSIVE GetAllHeader(_, _, _, _, _, _, _)
RECURSIVE GetAllData(_, _, _, _, _, _, _, _)
\* while ((message_idx < mq->count_messages) && (message_idx < max_messages))
GetAllLoop(w, buffer_size, max_messages, message_idx, current_ptr, out) ==
    IF message_idx < w.mq.count_messages /\ message_idx < max_messages
    THEN GetAllHeader(w, buffer_size, max_messages, message_idx + 1, current_ptr, out,
                      PERSIMQ_read_message_header(w, current_ptr))
    ELSE AllRes(w, TRUE, "ok", out, message_idx, TRUE)

GetAllHeader(w, buffer_size, max_messages, message_idx, current_ptr, out, header) ==
    IF ~header.ok THEN AllRes(header.w, FALSE, header.err, out, message_idx, FALSE)
    ELSE IF header.message_size > buffer_size
    THEN AllRes(w, TRUE, "ok", out, message_idx, TRUE)
    ELSE GetAllData(w, buffer_size, max_messages, message_idx, current_ptr, out, header,
                    PERSIMQ_read_message_data(w, header.message_size, header.message_crc,
                                              current_ptr + sizeof_TMessageHeader))

GetAllData(w, buffer_size, max_messages, message_idx, current_ptr, out, header, data) ==
    IF ~data.ok THEN AllRes(data.w, FALSE, data.err, out, message_idx, TRUE)
    ELSE GetAllLoop(w, buffer_size - header.message_size, max_messages, message_idx,
                    offset_roll(current_ptr, w.mq.file_size,
                                header.message_size + sizeof_TMessageHeader),
                    out \o data.out)

PERSIMQ_get_all(w, buffer_size, max_messages) ==
    IF w.mq.fd = 0 THEN AllRes(w, FALSE, "uninit", <<>>, 0, FALSE)
    ELSE IF PERSIMQ_messages_available(w.mq) = 0 THEN AllRes(w, FALSE, "empty", <<>>, 0, FALSE)
    ELSE GetAllLoop(w, buffer_size, max_messages, 0, w.mq.extract_ptr, <<>>)

----------------------------------------------------------------------------
(* The state machine: one action per library call *)

W == World(mq, fdOpen, file)

Call(op, msg, n, r) ==
    [op |-> op, msg |-> msg, n |-> n, ok |-> r.ok, err |-> r.err, out |-> r.out]

\* s without its first k elements
Drop(s, k) == IF k >= Len(s) THEN <<>> ELSE SubSeq(s, k + 1, Len(s))

\* the history after a call that took the handle's fields from m to m2
Removed(m, m2) ==
    IF m2.count_messages < m.count_messages
    THEN Drop(live, m.count_messages - m2.count_messages)
    ELSE live

NoTwin == [active |-> FALSE]

\* the same call on the twin queue, when there is one
TwinCall(r) == IF twin.active THEN [active |-> TRUE, w |-> r.w, ok |-> r.ok, out |-> r.out]
               ELSE twin

Step(r, call, limit) ==
    /\ mq' = r.w.mq
    /\ fdOpen' = r.w.open
    /\ file' = r.w.file
    /\ lastOp' = call
    /\ nops < limit
    /\ nops' = nops + 1
    /\ UNCHANGED damaged

Init ==
    /\ mq = [fd |-> 0, append_ptr |-> 0, extract_ptr |-> 0, count_bytes |-> 0,
             count_messages |-> 0, file_size |-> 0]
    /\ fdOpen = FALSE
    /\ file = <<>>
    /\ lastOp = [op |-> "none", msg |-> <<>>, n |-> 0, ok |-> TRUE, err |-> "ok", out |-> <<>>]
    /\ live = <<>>
    /\ ckpt = <<>>
    /\ twin = NoTwin
    /\ damaged = FALSE
    /\ nops = 0

\* flock(LOCK_EX) waits while another descriptor holds the lock; the size
\* check comes before it.
OpenWith(sizes, limit) ==
    \E size \in sizes :
        /\ fdOpen => SizeRefused(size)
        /\ \E r \in {PERSIMQ_open(W, size)} :
              /\ Step(r, Call("open", <<>>, size, r), limit)
              /\ live' = IF r.err = "recovered" THEN ckpt
                         ELSE IF r.err = "new" THEN <<>> ELSE live
              /\ twin' = IF twin.active THEN TwinCall(PERSIMQ_open(twin.w, size)) ELSE twin
        /\ UNCHANGED ckpt

Open(limit) == OpenWith(OpenSizes, limit)

Close(limit) ==
    \E r \in {PERSIMQ_close(W)} :
       /\ Step(r, Call("close", <<>>, 0, r), limit)
       /\ ckpt' = IF r.ok /\ mq.fd # 0 THEN live ELSE ckpt
       /\ twin' = IF twin.active THEN TwinCall(PERSIMQ_close(twin.w)) ELSE twin
       /\ UNCHANGED live

Drop_(limit) ==
    \E r \in {PERSIMQ_drop(W)} :
       /\ Step(r, Call("drop", <<>>, 0, r), limit)
       /\ twin' = IF twin.active THEN TwinCall(PERSIMQ_drop(twin.w)) ELSE twin
       /\ UNCHANGED <<live, ckpt>>

Sync(limit) ==
    \E r \in {PERSIMQ_sync(W)} :
       /\ Step(r, Call("sync", <<>>, 0, r), limit)
       /\ ckpt' = IF r.ok THEN live ELSE ckpt
       /\ twin' = IF twin.active THEN TwinCall(PERSIMQ_sync(twin.w)) ELSE twin
       /\ UNCHANGED live

Clear(limit) ==
    \E r \in {PERSIMQ_clear(W)} :
       /\ Step(r, Call("clear", <<>>, 0, r), limit)
       /\ live' = IF mq.fd # 0 THEN <<>> ELSE live
       /\ ckpt' = IF r.ok THEN <<>> ELSE ckpt
       /\ twin' = IF twin.active THEN TwinCall(PERSIMQ_clear(twin.w)) ELSE twin

PushOf(payloads, limit) ==
    \E message \in payloads :
        \E r \in {PERSIMQ_push(W, message)} :
           /\ Step(r, Call("push", message, Len(message), r), limit)
           /\ live' = IF r.ok THEN Append(live, message) ELSE live
           /\ twin' = IF twin.active THEN TwinCall(PERSIMQ_push(twin.w, message)) ELSE twin
           /\ UNCHANGED ckpt

Push(limit) == PushOf(Payloads, limit)

Pop(limit) ==
    \E r \in {PERSIMQ_pop(W)} :
       /\ Step(r, Call("pop", <<>>, 0, r), limit)
       /\ live' = Removed(mq, r.w.mq)
       /\ twin' = IF twin.active THEN TwinCall(PERSIMQ_pop(twin.w)) ELSE twin
       /\ UNCHANGED ckpt

PopN(limit) ==
    \E pop_count \in 0..MaxPopN :
        \E r \in {PERSIMQ_pop_n(W, pop_count)} :
           /\ Step(r, Call("pop_n", <<>>, pop_count, r), limit)
           /\ live' = Removed(mq, r.w.mq)
           /\ twin' = IF twin.active THEN TwinCall(PERSIMQ_pop_n(twin.w, pop_count)) ELSE twin
           /\ UNCHANGED ckpt

Get(limit) ==
    \E buffer_size \in BufferSizes :
        \E r \in {PERSIMQ_get(W, buffer_size)} :
           /\ Step(r, Call("get", <<>>, buffer_size, r), limit)
           /\ twin' = IF twin.active THEN TwinCall(PERSIMQ_get(twin.w, buffer_size)) ELSE twin
           /\ UNCHANGED <<live, ckpt>>

CallAll(buffer_size, max_messages, r) ==
    [op |-> "get_all", msg |-> <<>>, n |-> buffer_size, max |-> max_messages,
     ok |-> r.ok, err |-> r.err, out |-> r.out, total |-> r.total, count |-> r.count,
     stored |-> r.stored]

GetAllOf(buffer_sizes, limit) ==
    \E buffer_size \in buffer_sizes, max_messages \in 0..MaxGetAll :
        \E r \in {PERSIMQ_get_all(W, buffer_size, max_messages)} :
           /\ Step(r, CallAll(buffer_size, max_messages, r), limit)
           /\ twin' = IF twin.active
                      THEN TwinCall(PERSIMQ_get_all(twin.w, buffer_size, max_messages))
                      ELSE twin
           /\ UNCHANGED <<live, ckpt>>

GetAll(limit) == GetAllOf(BufferSizes, limit)

Next ==
    \/ Open(MaxOps) \/ Close(MaxOps) \/ Drop_(MaxOps) \/ Sync(MaxOps) \/ Clear(MaxOps)
    \/ Push(MaxOps) \/ Pop(MaxOps) \/ PopN(MaxOps) \/ Get(MaxOps)

Spec == Init /\ [][Next]_vars

\* One handle that is opened, filled and emptied: open, push, get, pop.
NextFifo == Open(MaxFifoOps) \/ Push(MaxFifoOps) \/ Get(MaxFifoOps) \/ Pop(MaxFifoOps)

SpecFifo == Init /\ [][NextFifo]_vars

\* pop_n(n) with n at least the number of messages, on an open handle; from
\* here on a twin queue, on which clear was called instead, gets the same calls.
TwinStart(c) == [active |-> TRUE, w |-> c.w, ok |-> c.ok, out |-> c.out]

PopNOver(limit) ==
    /\ mq.fd # 0 /\ fdOpen /\ ~twin.active
    /\ \E pop_count \in 0..MaxPopN :
        /\ pop_count >= mq.count_messages
        /\ \E r \in {PERSIMQ_pop_n(W, pop_count)} :
            /\ Step(r, Call("pop_n", <<>>, pop_count, r), limit)
            /\ live' = Removed(mq, r.w.mq)
            /\ twin' = TwinStart(PERSIMQ_clear(W))
    /\ UNCHANGED ckpt

NextTwin ==
    \/ Open(MaxTwinOps) \/ Push(MaxTwinOps) \/ Get(MaxTwinOps) \/ Pop(MaxTwinOps)
    \/ PopNOver(MaxTwinOps)

SpecTwin == Init /\ [][NextTwin]_vars

\* A fault of the storage, not a call: one bit of one byte of the file header
\* flips between a close and the next open.  At most one fault in a run.
Fault(pos, value) ==
    /\ file' = [file EXCEPT ![pos + 1] = value]
    /\ lastOp' = [op |-> "fault", msg |-> <<value>>, n |-> pos, ok |-> TRUE, err |-> "ok",
                  out |-> <<>>]
    /\ damaged' = TRUE
    /\ UNCHANGED <<mq, fdOpen, live, ckpt, twin, nops>>

CorruptHeader(limit) ==
    /\ ~fdOpen /\ ~damaged /\ nops < limit
    /\ lastOp.op = "close" /\ lastOp.ok
    /\ Len(file) >= sizeof_TFileHeader
    /\ \E pos \in 0..(sizeof_TFileHeader - 1), bit \in {1, 2, 4, 8, 16, 32, 64, 128} :
        Fault(pos, XorTable[file[pos + 1]][bit])

\* Messages are pushed before the fault; after it the file is opened and closed.
PushBeforeFault(limit) == ~damaged /\ Push(limit)

NextHeaderFault ==
    \/ Open(MaxHeaderFaultOps) \/ PushBeforeFault(MaxHeaderFaultOps)
    \/ Close(MaxHeaderFaultOps) \/ CorruptHeader(MaxHeaderFaultOps)

SpecHeaderFault == Init /\ [][NextHeaderFault]_vars

\* A fault of the storage: one payload byte of the record at the extract
\* pointer takes another value while the handle is open.
CorruptPayload(limit) ==
    /\ mq.fd # 0 /\ fdOpen /\ ~damaged /\ nops < limit
    /\ mq.count_messages > 0
    /\ \E h \in {PERSIMQ_read_message_header(W, mq.extract_ptr)} :
        /\ h.ok
        /\ \E i \in 1..h.message_size, value \in Byte :
            \E pos \in {offset_roll(mq.extract_ptr, mq.file_size,
                                    sizeof_TMessageHeader + i - 1)} :
                /\ file[pos + 1] # value
                /\ Fault(pos, value)

NextPayloadFault ==
    \/ Open(MaxPayloadFaultOps) \/ Push(MaxPayloadFaultOps) \/ Get(MaxPayloadFaultOps)
    \/ CorruptPayload(MaxPayloadFaultOps)

SpecPayloadFault == Init /\ [][NextPayloadFault]_vars

\* wrapped_io as a function of its arguments: `length` bytes are written at
\* `offset` into a copy of the file of the open handle and read back from it.
\* The bytes written are 101, 102, ...  The transfer is the last step of a run.
IoData(length) == [i \in 1..length |-> 100 + i]

CallIo(offset, data, wr, rd) ==
    [op |-> "wrapped_io", msg |-> data, n |-> offset, ok |-> wr.ok /\ rd.ok,
     err |-> IF wr.ok /\ rd.ok THEN "ok" ELSE "io", out |-> rd.data,
     written |-> wr.file, next |-> wr.next, has_next |-> wr.has_next]

WrappedIo(limit) ==
    /\ mq.fd # 0 /\ fdOpen /\ nops < limit
    /\ \E offset \in wrap_lo_margin..(mq.file_size - 1),
          length \in 0..(mq.file_size - wrap_lo_margin - 1) :
        \E wr \in {wrapped_io(fdOpen, file, IoData(length), length, offset,
                               mq.file_size, TRUE)} :
            lastOp' = CallIo(offset, IoData(length), wr,
                             wrapped_io(fdOpen, wr.file, <<>>, length, offset,
                                        mq.file_size, FALSE))
    /\ nops' = limit
    /\ UNCHANGED <<mq, fdOpen, file, live, ckpt, twin, damaged>>

NextIo ==
    \/ OpenWith({FileSize, FileSize + 1}, MaxIoOps) \/ Push(MaxIoOps) \/ WrappedIo(MaxIoOps)

SpecIo == Init /\ [][NextIo]_vars

\* A fault of the storage: one bit flips in the header or the payload of the
\* record at the extract pointer while the handle is open.  The top bit of the
\* recorded length stays as it is (lengths stay below 2^31).
CorruptRecord(limit) ==
    /\ mq.fd # 0 /\ fdOpen /\ ~damaged /\ nops < limit
    /\ mq.count_messages > 0
    /\ \E h \in {PERSIMQ_read_message_header(W, mq.extract_ptr)} :
        /\ h.ok
        /\ \E i \in 0..(sizeof_TMessageHeader + h.message_size - 1),
              bit \in {1, 2, 4, 8, 16, 32, 64, 128} :
            \E pos \in {offset_roll(mq.extract_ptr, mq.file_size, i)} :
                /\ ~(i = sizeof_TMessageHeader - 1 /\ bit = 128)
                /\ Fault(pos, XorTable[file[pos + 1]][bit])

NextRecordFault ==
    \/ OpenWith({FileSize}, MaxRecordFaultOps) \/ PushOf(ShortPayloads, MaxRecordFaultOps)
    \/ Pop(MaxRecordFaultOps) \/ CorruptRecord(MaxRecordFaultOps)

SpecRecordFault == Init /\ [][NextRecordFault]_vars

RECURSIVE RecordsSize(_, _)
\* the bytes the first k messages of msgs take in the file, headers included
RecordsSize(msgs, k) ==
    IF k = 0 THEN 0
    ELSE RecordsSize(msgs, k - 1) + sizeof_TMessageHeader + Len(msgs[k])

\* where the k-th live message starts
RecordStart(k) == offset_roll(mq.extract_ptr, mq.file_size, RecordsSize(live, k - 1))

\* A fault of the storage: one bit flips in the tag of one of the live
\* records while the handle is open.
CorruptTag(limit) ==
    /\ mq.fd # 0 /\ fdOpen /\ ~damaged /\ nops < limit
    /\ Len(live) = mq.count_messages
    /\ \E k \in 1..mq.count_messages, i \in 0..2, bit \in {1, 128} :
        \E pos \in {offset_roll(RecordStart(k), mq.file_size, i)} :
            Fault(pos, XorTable[file[pos + 1]][bit])

\* two payloads of different lengths
BatchPayloads == {<<1>>, <<2, 3>>}

\* Batches of pops on a file that holds three messages.
NextBatch ==
    \/ OpenWith({BigFileSize}, MaxBatchOps) \/ PushOf(BatchPayloads, MaxBatchOps)
    \/ PopN(MaxBatchOps) \/ CorruptTag(MaxBatchOps)

SpecBatch == Init /\ [][NextBatch]_vars

\* A push during which the device fails (a seek or a write returns an error):
\* in the header or in the payload, in the first chunk or in the second.
PushFailing(payloads, limit) ==
    /\ mq.fd # 0 /\ fdOpen
    /\ \E message \in payloads, in_header \in BOOLEAN, first_ok \in BOOLEAN :
        \E r \in {PERSIMQ_push_failing(W, message, in_header, first_ok)} :
           /\ r.err = "io"
           /\ Step(r, Call("push", message, Len(message), r), limit)
           /\ live' = IF r.ok THEN Append(live, message) ELSE live
           /\ UNCHANGED <<ckpt, twin>>

\* Pushes with and without failures of the device, on handles open and closed.
NextPushFault ==
    \/ OpenWith({FileSize, FileSize + 1}, MaxPushFaultOps)
    \/ PushOf(ShortPayloads \cup {<<>>}, MaxPushFaultOps)
    \/ PushFailing(ShortPayloads, MaxPushFaultOps)
    \/ Pop(MaxPushFaultOps) \/ Close(MaxPushFaultOps)

SpecPushFault == Init /\ [][NextPushFault]_vars

\* A queue that starts empty and is filled and emptied: push, pop, pop_n, clear.
NextCount ==
    \/ OpenWith({FileSize, FileSize + 1}, MaxCountOps) \/ Push(MaxCountOps)
    \/ Pop(MaxCountOps) \/ PopN(MaxCountOps) \/ Clear(MaxCountOps)

SpecCount == Init /\ [][NextCount]_vars

\* The bytes the checksum is evaluated on: no bit, each single bit, every bit.
CrcBytes == {0, 1, 2, 4, 8, 16, 32, 64, 128, 255}

CrcInputs == UNION {[1..len -> CrcBytes] : len \in 1..MaxCrcLen}

\* eval_crc8(data, length) applied to one input
EvalCrc8 ==
    /\ \E data \in CrcInputs :
        lastOp' = [op |-> "eval_crc8", msg |-> data, n |-> Len(data), ok |-> TRUE,
                   err |-> "ok", out |-> <<eval_crc8(data)>>]
    /\ UNCHANGED <<mq, fdOpen, file, live, ckpt, twin, damaged, nops>>

NextCrc == EvalCrc8

SpecCrc == Init /\ [][NextCrc]_vars

\* A queue that is checkpointed, used further and dropped, then opened again.
NextCrash ==
    \/ OpenWith({FileSize}, MaxCrashOps) \/ PushOf(BatchPayloads, MaxCrashOps)
    \/ Pop(MaxCrashOps) \/ Sync(MaxCrashOps) \/ Clear(MaxCrashOps) \/ Drop_(MaxCrashOps)

SpecCrash == Init /\ [][NextCrash]_vars

\* Offsets below, at and above the start of the data region, and past its end.
RollOffsets ==
    {0, 1, wrap_lo_margin - 1, wrap_lo_margin, wrap_lo_margin + 1,
     FileSize - 1, FileSize, FileSize + 1}

\* Ends of the data region: one byte of data, the smallest file open accepts,
\* the example's file, one byte more.
RollMargins ==
    {wrap_lo_margin + 1, sizeof_TFileHeader + sizeof_TMessageHeader + 2, FileSize, FileSize + 1}

\* offset_roll(current_offset, wrap_hi_margin, increment) applied to one input
OffsetRoll ==
    /\ \E current_offset \in RollOffsets, wrap_hi_margin \in RollMargins,
          increment \in 0..MaxIncrement :
        lastOp' = [op |-> "offset_roll",
                   msg |-> <<current_offset, wrap_hi_margin, increment>>,
                   n |-> offset_roll(current_offset, wrap_hi_margin, increment),
                   ok |-> TRUE, err |-> "ok", out |-> <<>>]
    /\ UNCHANGED <<mq, fdOpen, file, live, ckpt, twin, damaged, nops>>

NextRoll == OffsetRoll

SpecRoll == Init /\ [][NextRoll]_vars

\* Opening with any size, closing, dropping, writing the header.
NextOpenSize ==
    \/ OpenWith(AnyOpenSizes, MaxOpenOps) \/ Close(MaxOpenOps) \/ Drop_(MaxOpenOps)
    \/ Sync(MaxOpenOps)

SpecOpenSize == Init /\ [][NextOpenSize]_vars

\* All ten calls, on a file of FileSize bytes.
NextFrame ==
    \/ OpenWith(FrameSizes, MaxFrameOps) \/ Close(MaxFrameOps) \/ Drop_(MaxFrameOps) \/ Sync(MaxFrameOps)
    \/ Clear(MaxFrameOps) \/ Push(MaxFrameOps) \/ Pop(MaxFrameOps) \/ PopN(MaxFrameOps)
    \/ Get(MaxFrameOps) \/ GetAll(MaxFrameOps)

SpecFrame == Init /\ [][NextFrame]_vars

\* Reading a queue of up to three messages: open, push, get, get_all, pop.
NextPeek ==
    \/ OpenWith({BigFileSize}, MaxPeekOps) \/ PushOf(ShortPayloads, MaxPeekOps)
    \/ Get(MaxPeekOps) \/ GetAllOf(PeekBuffers, MaxPeekOps) \/ Pop(MaxPeekOps)

SpecPeek == Init /\ [][NextPeek]_vars

----------------------------------------------------------------------------
(* Properties *)

\* the handle is open: the library holds a descriptor and it is a live one
IsOpen == mq.fd # 0 /\ fdOpen

Capacity(m) == m.file_size - sizeof_TFileHeader

\* the append or extract pointer p moved on by n bytes in the data region
Advanced(m, p, n) ==
    sizeof_TFileHeader + ((p - sizeof_TFileHeader + n) % Capacity(m))

Fields(m) == <<m.append_ptr, m.extract_ptr, m.count_bytes, m.count_messages>>

\* C1: FIFO round trip.  On a handle used with open, push, get and pop, a get
\* that succeeds returns the oldest pushed payload that was not popped, byte
\* for byte, also when the record wraps around the end of the data region;
\* and a get on an open handle whose oldest payload fits the buffer succeeds.
C1_FifoRoundTrip ==
    lastOp.op = "get" =>
        /\ lastOp.ok => live # <<>> /\ lastOp.out = Head(live)
        /\ (lastOp.err # "uninit" /\ live # <<>> /\ Len(Head(live)) <= lastOp.n) => lastOp.ok

\* a get returned a payload whose record crosses the end of the data region
C1_Witness ==
    /\ lastOp.op = "get" /\ lastOp.ok /\ Len(live) = 1 /\ lastOp.out = Head(live)
    /\ mq.extract_ptr + sizeof_TMessageHeader + Len(lastOp.out) > mq.file_size


\* what get would return on a live handle with these fields on this file
FirstPayload(m, f) == PERSIMQ_get(World([m EXCEPT !.fd = NewFd], TRUE, f), 100)

\* C2: persistence round trip.  When close succeeded on an open handle and
\* the file is opened again with the same size, open succeeds, the new handle
\* has the append pointer, extract pointer, byte count and message count the
\* handle had at close, and get returns what it would have returned at close.
C2_PersistenceRoundTrip ==
    [][(/\ lastOp.op = "close" /\ lastOp.ok /\ mq.fd # 0
        /\ lastOp'.op = "open" /\ lastOp'.n = mq.file_size)
       => /\ lastOp'.ok
          /\ IsOpen'
          /\ Fields(mq') = Fields(mq)
          /\ FirstPayload(mq', file') = FirstPayload(mq, file)
          /\ live' = live]_vars

\* a queue holding a message was closed and opened again, and get returns
\* the message that was pushed
C2_Witness ==
    /\ lastOp.op = "open" /\ lastOp.err = "recovered" /\ IsOpen
    /\ mq.count_messages = 1 /\ Len(live) = 1
    /\ FirstPayload(mq, file).ok
    /\ FirstPayload(mq, file).out = Head(live)

\* C3: the example.  On a 64-byte queue file that was just opened and is
\* empty, the push of the 17-byte message "Test message !!!" succeeds.
C3_ExamplePush ==
    [][(/\ lastOp.op = "open" /\ lastOp.ok /\ lastOp.n = FileSize
        /\ PERSIMQ_is_empty(mq)
        /\ lastOp'.op = "push" /\ lastOp'.msg = ExampleMessage)
       => lastOp'.ok]_vars

\* C4: capacity.  On an open handle, a push of a payload that does not fit
\* the free space (file_size - 45 - count_bytes < 8 + len) fails and leaves
\* the handle, its open status and every byte of the file as they were.
C4_PushNoSpace ==
    [][(/\ lastOp'.op = "push" /\ IsOpen
        /\ mq.file_size - sizeof_TFileHeader - mq.count_bytes
             < sizeof_TMessageHeader + Len(lastOp'.msg))
       => /\ ~lastOp'.ok
          /\ mq' = mq /\ fdOpen' = fdOpen /\ file' = file]_vars

\* a push was refused on a queue that already holds a message
C4_Witness ==
    /\ lastOp.op = "push" /\ ~lastOp.ok /\ lastOp.err = "nospace" /\ IsOpen
    /\ mq.count_messages > 0
    /\ Len(lastOp.msg) <= MaxLen

\* C5: push postcondition.  On an open handle, a push of a payload of any
\* length >= 0 that fits the free space succeeds, leaves the handle open,
\* moves the append pointer on by 8 + len modulo the capacity, adds 8 + len to
\* the byte count and 1 to the message count.
C5_PushPostcondition ==
    [][(/\ lastOp'.op = "push" /\ IsOpen
        /\ mq.file_size - sizeof_TFileHeader - mq.count_bytes
             >= sizeof_TMessageHeader + Len(lastOp'.msg))
       => /\ lastOp'.ok
          /\ IsOpen'
          /\ mq'.append_ptr
               = Advanced(mq, mq.append_ptr, sizeof_TMessageHeader + Len(lastOp'.msg))
          /\ mq'.count_bytes = mq.count_bytes + sizeof_TMessageHeader + Len(lastOp'.msg)
          /\ mq'.count_messages = mq.count_messages + 1]_vars

\* C6: after close or drop has returned, the handle is closed: is_open is
\* false.
C6_ClosedAfterClose ==
    lastOp.op \in {"close", "drop"} => ~PERSIMQ_is_open(mq)

\* C7: push, pop, pop_n, clear and sync on a handle that is not open return
\* failure and leave the pointers and the counts as they were.
C7_ClosedHandleRejects ==
    [][(~IsOpen /\ lastOp'.op \in {"push", "pop", "pop_n", "clear", "sync"})
       => ~lastOp'.ok /\ Fields(mq') = Fields(mq)]_vars

\* C8: corruption containment for get.  After one payload byte of the record
\* at the extract pointer was changed to another value, a get that reads the
\* record returns failure and leaves the handle closed.
C8_GetDetectsPayloadChange ==
    [][(lastOp.op = "fault" /\ IsOpen /\ lastOp'.op = "get" /\ lastOp'.n = 100)
       => ~lastOp'.ok /\ ~PERSIMQ_is_open(mq') /\ ~fdOpen']_vars

\* the header of the file does not pass open's test for this size
BadHeader(f, size) ==
    \/ Len(f) < sizeof_TFileHeader
    \/ SubSeq(f, 1, 4) # FileMagic
    \/ eval_crc8(SubSeq(f, 1, sizeof_TFileHeader - 1)) # f[sizeof_TFileHeader]
    \/ SubSeq(f, 37, 44) # LittleEndian(size, 8)

\* C9: recovery fallback.  Opening, with a valid size, a file whose header has
\* a wrong magic tag, a checksum that does not match or a recorded size other
\* than the requested one succeeds and gives the empty state: both pointers
\* at the start of the data region, both counts zero.
C9_OpenFallback ==
    [][(/\ lastOp'.op = "open"
        /\ lastOp'.n > sizeof_TFileHeader + sizeof_TMessageHeader + 1
        /\ BadHeader(file, lastOp'.n))
       => /\ lastOp'.ok
          /\ IsOpen'
          /\ Fields(mq') = <<sizeof_TFileHeader, sizeof_TFileHeader, 0, 0>>
          /\ mq'.file_size = lastOp'.n]_vars

\* open gave the empty state for a header that records a message, with the
\* right tag and the requested size, whose checksum does not match
C9_Witness ==
    /\ lastOp.op = "open" /\ lastOp.ok /\ IsOpen /\ damaged
    /\ ckpt # <<>>
    /\ SubSeq(file, 1, 4) = FileMagic
    /\ SubSeq(file, 37, 44) = LittleEndian(mq.file_size, 8)
    /\ eval_crc8(SubSeq(file, 1, sizeof_TFileHeader - 1)) # file[sizeof_TFileHeader]
    /\ file[29] = 1
    /\ Fields(mq) = <<sizeof_TFileHeader, sizeof_TFileHeader, 0, 0>>

C11_PopNEmptyFails ==
    [][(lastOp'.op = "pop_n" /\ IsOpen /\ mq.count_messages = 0) => ~lastOp'.ok]_vars

\* C12: get and get_all are peeks.  A get or get_all on an open handle that
\* leaves the handle open (success, empty queue, first message longer than
\* the buffer) changes neither the pointers, the counts, the file size of the
\* handle nor the file; and a get that follows a successful get with the same
\* buffer size returns the same payload.
C12_GetIsPeek ==
    [][/\ (lastOp'.op \in {"get", "get_all"} /\ IsOpen /\ IsOpen')
          => /\ Fields(mq') = Fields(mq)
             /\ mq'.file_size = mq.file_size
             /\ file' = file
       /\ (/\ lastOp.op = "get" /\ lastOp.ok
           /\ lastOp'.op = "get" /\ lastOp'.n = lastOp.n)
          => lastOp'.ok /\ lastOp'.out = lastOp.out]_vars

\* a get returned the oldest of at least two messages, which are all still
\* queued, with the extract pointer where open put it
C12_Witness ==
    /\ lastOp.op = "get" /\ lastOp.ok /\ IsOpen
    /\ nops >= 4
    /\ Len(live) >= 2 /\ mq.count_messages = Len(live)
    /\ lastOp.out = Head(live)
    /\ mq.extract_ptr = sizeof_TFileHeader

\* C13: clear checkpoints.  After a successful clear the handle is empty
\* (both pointers at the start of the data region, both counts zero), the
\* header in the file is the header of that state, and dropping the handle
\* and opening the file with the same size recovers an empty queue.
C13_ClearCheckpoints ==
    (lastOp.op = "clear" /\ lastOp.ok)
    => /\ IsOpen
       /\ Fields(mq) = <<sizeof_TFileHeader, sizeof_TFileHeader, 0, 0>>
       /\ SubSeq(file, 1, sizeof_TFileHeader) = TFileHeader(mq)
       /\ \E r \in {PERSIMQ_open(PERSIMQ_drop(W).w, mq.file_size)} :
             /\ r.ok /\ r.err = "recovered"
             /\ Fields(r.w.mq) = <<sizeof_TFileHeader, sizeof_TFileHeader, 0, 0>>
             /\ PERSIMQ_is_empty(r.w.mq)

\* clear succeeded on a queue whose file holds a record that was pushed
C13_Witness ==
    /\ lastOp.op = "clear" /\ lastOp.ok /\ IsOpen
    /\ SubSeq(file, sizeof_TFileHeader + 1, sizeof_TFileHeader + 3) = MessageMagic
    /\ mq.count_messages = 0

\* the bytes of the header region of the file
HeaderRegion(f) ==
    SubSeq(f, 1, IF Len(f) < sizeof_TFileHeader THEN Len(f) ELSE sizeof_TFileHeader)

\* C14: header frame.  push, pop, pop_n, get and get_all change no byte of
\* the header region of the file and do not make the file longer or shorter;
\* the header of an existing file changes only in sync, close and clear.
C14_HeaderFrame ==
    [][/\ lastOp'.op \in {"push", "pop", "pop_n", "get", "get_all"}
          => /\ HeaderRegion(file') = HeaderRegion(file)
             /\ Len(file') = Len(file)
       /\ (lastOp'.op \notin {"sync", "close", "clear"} /\ Len(file) >= sizeof_TFileHeader)
          => HeaderRegion(file') = HeaderRegion(file)]_vars

\* a push wrote a record across the end of the data region of a file whose
\* header had been written
C14_Witness ==
    /\ lastOp.op = "push" /\ lastOp.ok /\ IsOpen
    /\ SubSeq(file, 1, 4) = FileMagic
    /\ mq.append_ptr < mq.extract_ptr
    /\ Len(file) = mq.file_size

\* the offset of byte number i (from 0) of a transfer that starts at offset o
\* in a file of `size` bytes
WrapPos(o, size, i) ==
    sizeof_TFileHeader + ((o - sizeof_TFileHeader + i) % (size - sizeof_TFileHeader))

\* C15: wraparound correctness.  For every offset o of the data region and
\* every length L below its capacity, a wrapped write of L bytes at o and a
\* wrapped read of L bytes at o, both successful when L is not 0, give back
\* the bytes written, in order; the write changes the file exactly at the
\* offsets o, o + 1, ... taken modulo the capacity inside the data region
\* (one run of offsets, or two when o + L passes the end) and stores the
\* data there; the next offset reported is headerSize + ((o - headerSize + L)
\* mod capacity).
C15_WrappedRoundTrip ==
    lastOp.op = "wrapped_io" =>
        /\ lastOp.out = lastOp.msg
        /\ Len(lastOp.msg) > 0 => lastOp.ok
        /\ Len(lastOp.written) = Len(file)
        /\ \A p \in 1..Len(file) :
              lastOp.written[p] =
                 IF \E i \in 0..(Len(lastOp.msg) - 1) : WrapPos(lastOp.n, mq.file_size, i) = p - 1
                 THEN lastOp.msg[1 + CHOOSE i \in 0..(Len(lastOp.msg) - 1) :
                                        WrapPos(lastOp.n, mq.file_size, i) = p - 1]
                 ELSE file[p]
        /\ lastOp.has_next
        /\ lastOp.next = WrapPos(lastOp.n, mq.file_size, Len(lastOp.msg))

\* a transfer of capacity - 1 bytes that passes the end of the data region
\* was written and read back
C15_Witness ==
    /\ lastOp.op = "wrapped_io" /\ lastOp.ok
    /\ Len(lastOp.msg) = mq.file_size - sizeof_TFileHeader - 1
    /\ lastOp.n + Len(lastOp.msg) > mq.file_size
    /\ lastOp.out = lastOp.msg
    /\ mq.count_messages > 0

\* C16: configuration error.  open with a size that does not exceed
\* headerSize + messageHeaderSize + 1 returns failure, does not open or lock
\* the file, leaves the file as it is and changes no field of the handle.
C16_OpenSizeRefused ==
    [][(lastOp'.op = "open"
        /\ lastOp'.n <= sizeof_TFileHeader + sizeof_TMessageHeader + 1)
       => /\ ~lastOp'.ok
          /\ mq' = mq /\ fdOpen' = fdOpen /\ file' = file]_vars

\* C17: exclusive lock.  An open that reports failure on a file that was
\* not locked leaves no descriptor open and no lock held on it.
C17_FailedOpenReleasesLock ==
    [][(lastOp'.op = "open" /\ ~lastOp'.ok /\ ~fdOpen) => ~fdOpen']_vars

\* bytes from..to (counted from 0) of the record that starts at offset o of
\* file f, in a data region that ends at `size`
RecordBytes(f, o, size, from, to) ==
    [k \in 1..(to - from + 1) |-> f[WrapPos(o, size, from + k - 1) + 1]]

\* C18: pop validates the tag only.  For a pop on an open handle that holds
\* a message: when the three bytes at the extract pointer are not the message
\* tag, pop fails, the handle is closed and pointers and counts are as before;
\* when they are the tag, pop succeeds whatever the other bytes of the record
\* are, the extract pointer advances by messageHeaderSize + the recorded
\* length modulo the capacity, the message count falls by 1 and the byte
\* count by messageHeaderSize + the recorded length.
C18_PopChecksTag ==
    [][(lastOp'.op = "pop" /\ IsOpen /\ mq.count_messages > 0)
       => IF RecordBytes(file, mq.extract_ptr, mq.file_size, 0, 2) # MessageMagic
          THEN /\ ~lastOp'.ok
               /\ ~PERSIMQ_is_open(mq') /\ ~fdOpen'
               /\ Fields(mq') = Fields(mq)
          ELSE /\ lastOp'.ok
               /\ IsOpen'
               /\ mq'.append_ptr = mq.append_ptr
               /\ mq'.extract_ptr =
                    WrapPos(mq.extract_ptr, mq.file_size,
                            sizeof_TMessageHeader
                              + FromLE32(RecordBytes(file, mq.extract_ptr, mq.file_size, 4, 7)))
               /\ mq'.count_messages = mq.count_messages - 1
               /\ mq'.count_bytes =
                    mq.count_bytes
                      - (sizeof_TMessageHeader
                           + FromLE32(RecordBytes(file, mq.extract_ptr, mq.file_size, 4, 7)))]_vars

\* pop removed the record at the start of the data region although its
\* checksum byte does not match its payload
C18_Witness ==
    /\ lastOp.op = "pop" /\ lastOp.ok /\ IsOpen /\ damaged
    /\ mq.extract_ptr # sizeof_TFileHeader
    /\ SubSeq(file, sizeof_TFileHeader + 1, sizeof_TFileHeader + 3) = MessageMagic
    /\ FromLE32(SubSeq(file, sizeof_TFileHeader + 5, sizeof_TFileHeader + 8)) \in 1..MaxLen
    /\ file[sizeof_TFileHeader + 4]
         # eval_crc8(SubSeq(file, sizeof_TFileHeader + 9,
                            sizeof_TFileHeader + 8
                              + FromLE32(SubSeq(file, sizeof_TFileHeader + 5,
                                                sizeof_TFileHeader + 8))))

\* the live records among the first n whose tag is not the message tag
BadTags(n) ==
    {k \in 1..n : RecordBytes(file, RecordStart(k), mq.file_size, 0, 2) # MessageMagic}

\* the first of a non-empty set of record numbers
FirstOf(ks) == CHOOSE k \in ks : \A j \in ks : k <= j

\* what pop_n leaves when its k-th pop was the first to fail: the k - 1 pops
\* before it stay applied and the k-th message and those after it stay
PoppedBefore(k) ==
    /\ mq'.count_messages = mq.count_messages - (k - 1)
    /\ mq'.count_bytes = mq.count_bytes - RecordsSize(live, k - 1)
    /\ mq'.extract_ptr = RecordStart(k)
    /\ mq'.append_ptr = mq.append_ptr
    /\ live' = SubSeq(live, k, Len(live))
    /\ file' = file

\* C19: pop_n partial batch.  On an open handle with c live messages and
\* n < c, pop_n(n) removes exactly the first n messages when all n pops succeed:
\* it returns success, the message count becomes c - n and the next get returns
\* the (n+1)-th message.  When the k-th pop is the first to fail, pop_n returns
\* failure, the first k - 1 pops stay applied and no message from the k-th on
\* is removed.  (The next get is looked at when the tag of the (n+1)-th
\* message is intact; a pop fails when the tag it reads is damaged.)
C19_PopNPartialBatch ==
    [][(lastOp'.op = "pop_n" /\ IsOpen /\ lastOp'.n < mq.count_messages)
       => IF BadTags(lastOp'.n) = {}
          THEN /\ lastOp'.ok
               /\ IsOpen'
               /\ PoppedBefore(lastOp'.n + 1)
               /\ BadTags(lastOp'.n + 1) = {}
                    => /\ PERSIMQ_get(World(mq', fdOpen', file'), 100).ok
                       /\ PERSIMQ_get(World(mq', fdOpen', file'), 100).out
                            = live[lastOp'.n + 1]
          ELSE /\ ~lastOp'.ok
               /\ PoppedBefore(FirstOf(BadTags(lastOp'.n)))]_vars

\* pop_n(2) on three messages failed at its second pop: one message is gone,
\* two are left
C19_Witness ==
    /\ lastOp.op = "pop_n" /\ ~lastOp.ok /\ lastOp.n = 2 /\ damaged
    /\ mq.count_messages = 2 /\ Len(live) = 2
    /\ mq.extract_ptr # sizeof_TFileHeader
    /\ mq.fd = 0

RECURSIVE PayloadsOf(_, _)
\* the payloads of the first k messages of msgs, one after the other
PayloadsOf(msgs, k) == IF k = 0 THEN <<>> ELSE PayloadsOf(msgs, k - 1) \o msgs[k]

\* how many messages the longest prefix of msgs has that holds at most
\* max_messages messages and whose payloads fit in buffer_size bytes
FittingPrefix(msgs, buffer_size, max_messages) ==
    CHOOSE k \in 0..Len(msgs) :
        /\ k <= max_messages /\ Len(PayloadsOf(msgs, k)) <= buffer_size
        /\ \A j \in (k + 1)..Len(msgs) :
              j > max_messages \/ Len(PayloadsOf(msgs, j)) > buffer_size

\* C20: get_all result.  On an open handle that holds a message, with no
\* damage to the file, get_all(bufferCapacity, maxMessages) returns success,
\* copies the payloads of the longest prefix of the live messages that has at
\* most maxMessages messages and fits in bufferCapacity, reports as
\* messages_read the number of messages copied and as total_size the number of
\* bytes copied.
C20_GetAllResult ==
    [][(lastOp'.op = "get_all" /\ IsOpen /\ mq.count_messages > 0 /\ ~damaged)
       => /\ lastOp'.ok
          /\ lastOp'.out = PayloadsOf(live, FittingPrefix(live, lastOp'.n, lastOp'.max))
          /\ lastOp'.total = Len(lastOp'.out)
          /\ lastOp'.count = FittingPrefix(live, lastOp'.n, lastOp'.max)]_vars

\* C21: push I/O failure.  When a seek or a write fails while push writes
\* the message header or the payload, push returns failure, the handle is
\* closed (PERSIMQ_is_open false, descriptor closed and lock released) and
\* the live-byte and live-message counts are as before the call.
C21_PushIoFailure ==
    [][(lastOp'.op = "push" /\ lastOp'.err = "io")
       => /\ ~lastOp'.ok
          /\ ~PERSIMQ_is_open(mq') /\ ~fdOpen'
          /\ mq'.count_bytes = mq.count_bytes
          /\ mq'.count_messages = mq.count_messages]_vars

\* a push failed in its payload, after its header was written over the wrap,
\* on a queue that holds a message
C21_Witness ==
    /\ lastOp.op = "push" /\ lastOp.err = "io" /\ ~lastOp.ok
    /\ mq.count_messages > 0
    /\ mq.fd = 0 /\ ~fdOpen
    /\ mq.append_ptr < mq.extract_ptr
    /\ mq.append_ptr # sizeof_TFileHeader

\* C22: pointer range invariant.  In every state of an open handle reached
\* through open, push, pop, pop_n, get, get_all, clear and sync (and close and
\* drop), the append pointer and the extract pointer lie in
\* [sizeof(TFileHeader), file_size).
C22_PointerRange ==
    PERSIMQ_is_open(mq)
      => /\ mq.append_ptr >= sizeof_TFileHeader /\ mq.append_ptr < mq.file_size
         /\ mq.extract_ptr >= sizeof_TFileHeader /\ mq.extract_ptr < mq.file_size

\* a push moved the append pointer across the end of the data region, behind
\* the extract pointer
C22_Witness ==
    /\ IsOpen /\ lastOp.op = "push" /\ lastOp.ok
    /\ mq.append_ptr < mq.extract_ptr
    /\ mq.append_ptr > sizeof_TFileHeader

RECURSIVE WalkRecords(_, _, _, _, _)
\* The walk over k records of file f from offset ptr, with wraparound in the
\* data region of handle m: whether every tag met was the message tag, where
\* the walk ended, and the bytes it passed (headers and recorded lengths).
WalkRecords(f, m, ptr, k, bytes) ==
    IF k = 0 THEN [ok |-> TRUE, end |-> ptr, bytes |-> bytes]
    ELSE IF RecordBytes(f, ptr, m.file_size, 0, 2) # MessageMagic
    THEN [ok |-> FALSE, end |-> ptr, bytes |-> bytes]
    ELSE WalkRecords(f, m,
                     WrapPos(ptr, m.file_size,
                             sizeof_TMessageHeader
                               + FromLE32(RecordBytes(f, ptr, m.file_size, 4, 7))),
                     k - 1,
                     bytes + sizeof_TMessageHeader
                       + FromLE32(RecordBytes(f, ptr, m.file_size, 4, 7)))

\* C23: count consistency invariant.  In every state of an open handle
\* reached from an empty queue by push, pop, pop_n and clear, the walk from the
\* extract pointer over count_messages records meets a valid tag at each, ends
\* at the append pointer and passes count_bytes bytes; count_bytes is at most
\* file_size - sizeof(TFileHeader), so bytes_free is not negative, and
\* is_empty holds exactly when messages_available is 0.
C23_CountConsistency ==
    IsOpen
      => /\ WalkRecords(file, mq, mq.extract_ptr, mq.count_messages, 0).ok
         /\ WalkRecords(file, mq, mq.extract_ptr, mq.count_messages, 0).end = mq.append_ptr
         /\ WalkRecords(file, mq, mq.extract_ptr, mq.count_messages, 0).bytes = mq.count_bytes
         /\ mq.count_bytes <= Capacity(mq)
         /\ PERSIMQ_bytes_free(mq) >= 0
         /\ PERSIMQ_is_empty(mq) <=> (PERSIMQ_messages_available(mq) = 0)

\* two live records, the second written across the end of the data region
C23_Witness ==
    /\ IsOpen /\ lastOp.op = "push" /\ lastOp.ok
    /\ mq.count_messages = 2
    /\ mq.append_ptr <= mq.extract_ptr
    /\ mq.extract_ptr # sizeof_TFileHeader

\* data with one bit of its i-th byte flipped
FlipBit(data, i, bit) == [data EXCEPT ![i] = XorTable[@][bit]]

BitPositions(data) == (1..Len(data)) \X {1, 2, 4, 8, 16, 32, 64, 128}

\* the sequences that differ from data in exactly one bit
OneBitOff(data) == {FlipBit(data, p[1], p[2]) : p \in BitPositions(data)}

\* the sequences that differ from data in exactly two bits
TwoBitsOff(data) ==
    {FlipBit(FlipBit(data, p[1], p[2]), q[1], q[2]) :
        <<p, q>> \in {pq \in BitPositions(data) \X BitPositions(data) : pq[1] # pq[2]}}

\* data with its i-th and j-th bytes exchanged
Swapped(data, i, j) == [data EXCEPT ![i] = data[j], ![j] = data[i]]

\* the checksum tells apart some sequence from one with two different bytes of
\* it exchanged
OrderSensitive ==
    \E data \in CrcInputs : \E i, j \in 1..Len(data) :
        data[i] # data[j] /\ eval_crc8(Swapped(data, i, j)) # eval_crc8(data)

\* C24: checksum strength.  Every sequence that differs from the input in
\* exactly one bit or in exactly two bits, at the same length (up to MaxCrcLen
\* bytes), has a checksum different from the input's; and the checksum is
\* order-sensitive.
C24_ChecksumStrength ==
    lastOp.op = "eval_crc8"
      => /\ \A other \in OneBitOff(lastOp.msg) : eval_crc8(other) # lastOp.out[1]
         /\ \A other \in TwoBitsOff(lastOp.msg) : eval_crc8(other) # lastOp.out[1]
         /\ OrderSensitive

RECURSIVE Drain(_, _)
RECURSIVE DrainGet(_, _, _)
RECURSIVE DrainPop(_, _)
\* Reading the queue of world w to its end, get and pop by turns: whether every
\* call succeeded, and the payloads got so far.
Drain(w, got) ==
    IF PERSIMQ_is_empty(w.mq) THEN [ok |-> TRUE, out |-> got]
    ELSE DrainGet(w, got, PERSIMQ_get(w, 100))

DrainGet(w, got, g) ==
    IF ~g.ok THEN [ok |-> FALSE, out |-> got]
    ELSE DrainPop(Append(got, g.out), PERSIMQ_pop(g.w))

DrainPop(got, p) ==
    IF ~p.ok THEN [ok |-> FALSE, out |-> got] ELSE Drain(p.w, got)

\* C25: crash consistency of the checkpoint.  When a handle is dropped
\* after pushes and pops that followed its last successful sync or clear, and
\* the file is opened again with the same size, open succeeds with the counts
\* of that checkpoint and pointers that agree with them, and reading the queue
\* to its end (get and pop by turns) returns the payloads that were live at the
\* checkpoint, in order.
C25_CrashConsistency ==
    [][(/\ lastOp.op = "drop" /\ lastOp.ok /\ mq.fd # 0
        /\ lastOp'.op = "open" /\ lastOp'.n = mq.file_size)
       => /\ lastOp'.ok
          /\ IsOpen'
          /\ mq'.count_messages = Len(ckpt)
          /\ mq'.count_bytes = RecordsSize(ckpt, Len(ckpt))
          /\ mq'.append_ptr = Advanced(mq', mq'.extract_ptr, mq'.count_bytes)
          /\ Drain(World(mq', fdOpen', file'), <<>>).ok
          /\ Drain(World(mq', fdOpen', file'), <<>>).out = ckpt]_vars

\* the length recorded in the record at the extract pointer
RecordedLength == FromLE32(RecordBytes(file, mq.extract_ptr, mq.file_size, 4, 7))

\* the record at the extract pointer has the message tag and a recorded length
\* larger than the live bytes it can occupy or than the data region
Oversized ==
    /\ IsOpen /\ mq.count_messages > 0
    /\ RecordBytes(file, mq.extract_ptr, mq.file_size, 0, 2) = MessageMagic
    /\ \/ RecordedLength + sizeof_TMessageHeader > mq.count_bytes
       \/ RecordedLength > Capacity(mq)

\* C26: length-field validation on read.  A record whose tag is intact and
\* whose recorded length is larger than the live bytes it can occupy, or than
\* the data region, is not accepted: get on it fails and pop on it fails; and
\* no call leaves an open handle with a negative count_bytes or with
\* bytes_free larger than the data region.
C26_LengthValidated ==
    [][/\ Oversized => ~PERSIMQ_get(W, 100).ok
       /\ (Oversized /\ lastOp'.op = "pop") => ~lastOp'.ok
       /\ IsOpen' => /\ mq'.count_bytes >= 0
                     /\ PERSIMQ_bytes_free(mq') <= Capacity(mq')]_vars

\* the larger of two offsets
Max(a, b) == IF a > b THEN a ELSE b

\* C27: address mapper.  For every non-negative current offset, increment
\* and end of the data region after its start, offset_roll gives
\* start + ((max(offset, start) - start + increment) mod (end - start)); an
\* offset below the start with increment 0 gives the start; and the result is
\* in [start, end).
C27_AddressMapper ==
    lastOp.op = "offset_roll"
      => /\ lastOp.n = wrap_lo_margin
                         + ((Max(lastOp.msg[1], wrap_lo_margin) - wrap_lo_margin + lastOp.msg[3])
                              % (lastOp.msg[2] - wrap_lo_margin))
         /\ (lastOp.msg[1] < wrap_lo_margin /\ lastOp.msg[3] = 0) => lastOp.n = wrap_lo_margin
         /\ lastOp.n >= wrap_lo_margin /\ lastOp.n < lastOp.msg[2]

====
